---- MODULE Spec2Model ----
(***************************************************************************)
(* Model of .github/scripts/code_review.py: the GitHubAPI client and the   *)
(* CodeReviewBot orchestrator, one run of the script from bot.run() to     *)
(* process exit.                                                           *)
(*                                                                         *)
(* Strings whose content matters are sequences of one-character strings.   *)
(* Python's None is NoneStr for the string-valued environment fields, a    *)
(* record with none = TRUE for the values that are sliced or indexed, and  *)
(* 0 for the returned issue / pull-request identifiers.                    *)
(***************************************************************************)
EXTENDS Integers, Sequences, FiniteSets, TLC

\* ---------------------------------------------------------------- bounds
MaxNumber == 2      \* issue / pull-request numbers the server may answer
LongShaLen == 9     \* length of the long commit SHA (longer than the slice)
ShortShaLen == 3    \* length of the short commit SHA (shorter than the slice)
MaxPad == 1         \* characters that may precede a word in test_results.txt

\* ------------------------------------------------------- program constants
ShaPrefixLen == 7   \* self.sha[:7]

NoneStr == "<None>"
NoExit == -1

Min(a, b) == IF a < b THEN a ELSE b

\* ---------------------------------------------------------------- strings
\* s[:n]
Slice(s, n) == SubSeq(s, 1, Min(n, Len(s)))

\* sub in s
Contains(s, sub) ==
    \E i \in 0..(Len(s) - Len(sub)) : SubSeq(s, i + 1, i + Len(sub)) = sub

FAIL == <<"F", "A", "I", "L">>

HexChars == <<"0", "1", "2", "3", "4", "5", "6", "7", "8", "9", "a", "b", "c", "d", "e", "f">>

MkSha(n) == [none |-> FALSE, val |-> [i \in 1..n |-> HexChars[((i - 1) % 16) + 1]]]

NoneSha == [none |-> TRUE, val |-> <<>>]

\* values of os.getenv('GITHUB_SHA')
Shas == {NoneSha, MkSha(ShortShaLen), MkSha(LongShaLen)}

\* values of os.getenv('TEST_EXIT_CODE')
ExitCodes == {NoneStr, "0", "1"}

\* values of os.getenv('GEMINI_API_KEY')
ApiKeys == {NoneStr, "", "key"}

\* values of os.getenv('HAS_...')
FlagEnv == {NoneStr, "true", "True", "false"}

\* os.getenv('HAS_...') == 'true'
EnvFlag(v) == v = "true"

Words == {FAIL, <<"F", "A", "I">>, <<"f", "a", "i", "l">>}

Pad(k) == [i \in 1..k |-> "x"]

\* test_results.txt: missing, unreadable, or readable with a content
TestFiles ==
    {[status |-> "missing", content |-> <<>>],
     [status |-> "unreadable", content |-> FAIL]}
    \cup {[status |-> "ok", content |-> Pad(k) \o w] : k \in 0..MaxPad, w \in Words}

\* CodeReviewBot.read_file
read_file(f) == IF f.status = "ok" THEN f.content ELSE <<>>

\* ------------------------------------------------------ GitHubAPI.request
\* a parsed JSON value, or None
NoneVal == [none |-> TRUE, keys |-> {}, number |-> 0]

JsonObjects ==
    {[none |-> FALSE, keys |-> {}, number |-> 0],
     [none |-> FALSE, keys |-> {"html_url"}, number |-> 0]}
    \cup {[none |-> FALSE, keys |-> k, number |-> n] :
            k \in {{"number"}, {"number", "html_url"}}, n \in 1..MaxNumber}

\* what the transport can do with one request: fail, answer with a
\* non-success status, answer 2xx with an unparseable body, answer 2xx with JSON
GitHubResponses ==
    {[net |-> FALSE, ok |-> FALSE, json |-> FALSE, body |-> NoneVal],
     [net |-> TRUE, ok |-> FALSE, json |-> FALSE, body |-> NoneVal],
     [net |-> TRUE, ok |-> TRUE, json |-> FALSE, body |-> NoneVal]}
    \cup {[net |-> TRUE, ok |-> TRUE, json |-> TRUE, body |-> b] : b \in JsonObjects}

Returned(v) == [raised |-> "", value |-> v]
Raised(e) == [raised |-> e, value |-> NoneVal]

\* GitHubAPI.request: requests.request raises on a transport failure, a
\* non-ok response returns None, response.json() raises on a bad body
request(resp) ==
    IF ~resp.net THEN Raised("ConnectionError")
    ELSE IF ~resp.ok THEN Returned(NoneVal)
    ELSE IF ~resp.json THEN Raised("JSONDecodeError")
    ELSE Returned(resp.body)

\* truth value of a request result (None and {} are false)
Truthy(v) == ~v.none /\ v.keys # {}

\* how a call ended for its caller: an exception, None, or a parsed body
ResultClass(r) ==
    IF r.raised # "" THEN "raised"
    ELSE IF r.value.none THEN "null"
    ELSE "value"

\* one entry of the log of outbound HTTP calls; resnum is the number of the
\* created issue or pull request, for the two calls whose caller reads it
Call(api, method, path, number, title, r) ==
    [api |-> api, method |-> method, path |-> path, number |-> number,
     title |-> title, result |-> ResultClass(r),
     resnum |-> IF path \in {"/issues", "/pulls"} /\ r.raised = "" /\ "number" \in r.value.keys
                THEN r.value.number ELSE 0]

\* ------------------------------------------------- CodeReviewBot.call_gemini_api
NoText == [none |-> TRUE, val |-> <<>>]

GeminiResponses ==
    {[net |-> FALSE, ok |-> FALSE, shape |-> "none", text |-> <<>>],
     [net |-> TRUE, ok |-> FALSE, shape |-> "none", text |-> <<>>]}
    \cup {[net |-> TRUE, ok |-> TRUE, shape |-> sh, text |-> <<>>] :
            sh \in {"notjson", "no_candidates", "no_content", "no_parts"}}
    \cup {[net |-> TRUE, ok |-> TRUE, shape |-> "text", text |-> t] :
            t \in {<<>>, <<"ai-text">>}}

\* not self.gemini_api_key
KeyConfigured(key) == key # NoneStr /\ key # ""

\* call_gemini_api: sent says whether requests.post ran, text is the return value
call_gemini_api(key, resp) ==
    IF ~KeyConfigured(key) THEN [sent |-> FALSE, text |-> NoText]
    ELSE IF ~resp.net THEN [sent |-> TRUE, text |-> NoText]
    ELSE IF ~resp.ok THEN [sent |-> TRUE, text |-> NoText]
    ELSE IF resp.shape = "text" THEN [sent |-> TRUE, text |-> [none |-> FALSE, val |-> resp.text]]
    ELSE [sent |-> TRUE, text |-> NoText]

\* ---------------------------------------------- CodeReviewBot.generate_ai_analysis
BulletCritical == "Critical: Test failures detected - fix immediately"
BulletComplexity == "High: Complex functions found - consider refactoring"
BulletConst == "Medium: Duplicate constants - extract as named constants"
BulletLarge == "Medium: Large files detected - consider splitting"
BulletStatic == "High: Static analysis issues - check staticcheck warnings"

PriorityLabel == "**Priority**: "

\* priority.upper()
Upper(p) == CASE p = "medium" -> "MEDIUM" [] p = "critical" -> "CRITICAL"

\* the substring test with its last character lost
FallbackPriority_FAI(test_results) ==
    IF Contains(test_results, <<"F", "A", "I">>) THEN "critical" ELSE "medium"

FallbackPriority(test_results) ==
    IF Contains(test_results, FAIL) THEN "critical" ELSE "medium"

\* the large-files bullet tested on the constants flag
FallbackInsights_WrongFlag(test_results, complexity, const, large, static) ==
    (IF Contains(test_results, FAIL) THEN <<BulletCritical>> ELSE <<>>)
    \o (IF complexity THEN <<BulletComplexity>> ELSE <<>>)
    \o (IF const THEN <<BulletConst>> ELSE <<>>)
    \o (IF const THEN <<BulletLarge>> ELSE <<>>)
    \o (IF static THEN <<BulletStatic>> ELSE <<>>)

FallbackInsights(test_results, complexity, const, large, static) ==
    (IF Contains(test_results, FAIL) THEN <<BulletCritical>> ELSE <<>>)
    \o (IF complexity THEN <<BulletComplexity>> ELSE <<>>)
    \o (IF const THEN <<BulletConst>> ELSE <<>>)
    \o (IF large THEN <<BulletLarge>> ELSE <<>>)
    \o (IF static THEN <<BulletStatic>> ELSE <<>>)

RecommendedActions ==
    <<"1. Fix test failures first (highest priority)",
      "2. Address staticcheck warnings",
      "3. Refactor complex functions",
      "4. Extract duplicate constants",
      "5. Split large files">>

\* the fallback report, as its sequence of text pieces
FallbackReport(test_results, complexity, const, large, static) ==
    <<"## AI Code Review Summary (Fallback Analysis)", PriorityLabel,
      Upper(FallbackPriority(test_results)), "### Identified Issues:">>
    \o FallbackInsights(test_results, complexity, const, large, static)
    \o <<"### Recommended Actions:">>
    \o RecommendedActions
    \o <<"*Configure GEMINI_API_KEY for detailed AI insights.*">>

\* ai_report is None, which lets an empty text through
NoReport_IsNone(text) == text.none

\* not ai_report
NoReport(text) == text.none \/ text.val = <<>>

\* ------------------------------------------------------------ payload pieces
\* the slice one character short
IssueTitle_Short(s) == <<"Test Failure (">> \o Slice(s, ShaPrefixLen - 1) \o <<")">>

\* f"Test Failure ({self.sha[:7]})"
IssueTitle(s) == <<"Test Failure (">> \o Slice(s, ShaPrefixLen) \o <<")">>

\* f"code-quality-fixes-{self.sha[:7]}"
BranchName(s) == <<"code-quality-fixes-">> \o Slice(s, ShaPrefixLen)

\* f"Code Quality Improvements ({self.sha[:7]})"
PrTitle(s) == <<"Code Quality Improvements (">> \o Slice(s, ShaPrefixLen) \o <<")">>

\* a fixed number instead of the created pull request's
LabelsNumber_Fixed(pr) == 1

\* the number in f"/issues/{pr_result['number']}/labels"
LabelsNumber(pr) == pr.number

\* the number in f"/issues/{pr_result['number']}/comments"
CommentsNumber(pr) == pr.number

\* ---------------------------------------------------------------- run()
\* self.test_exit_code != '0'
BranchACond(tec) == tec # "0"

\* the flags are not tested
BranchBCond_NoFlags(tec, complexity, const, large, static) == tec = "0"

\* the exit status is not tested
BranchBCond_NoExitTest(tec, complexity, const, large, static) ==
    complexity \/ const \/ large \/ static

BranchBCond(tec, complexity, const, large, static) ==
    tec = "0" /\ (complexity \/ const \/ large \/ static)

\* except KeyError
TryCatches_KeyErrorOnly(e) == e = "KeyError"

\* except Exception as e (line 295): every exception the try block raises
TryCatches(e) == TRUE

\* the branch gives up when the ref was not created
AfterCreateRef_StopOnNull(v) == IF Truthy(v) THEN "B_file" ELSE "run_end"

\* control continues with the file creation whatever the ref call returned
AfterCreateRef(v) == "B_file"

\* if not pr_result: return None
PrAbort(v) == ~Truthy(v)

\* ------------------------------------------------------------------ state
VARIABLES
    gemini_api_key, sha, test_exit_code,
    has_complexity, has_const_issues, has_large_files, has_static_issues,
    test_results_txt,   \* the file test_results.txt
    pc,                 \* position of the single thread of control
    calls,              \* outbound HTTP calls issued so far, in order
    ai_report,          \* return value of generate_ai_analysis
    fallback,           \* "Using fallback analysis engine" was printed
    branch_name,
    pr_result,
    issue_number,       \* return value of create_test_failure_issue (0: None)
    pr_number,          \* return value of create_code_quality_pr (0: None)
    exc,                \* exception propagating out of run()
    caught,             \* exception caught by create_code_quality_pr
    completed,          \* "Code review process completed." was printed
    entered,            \* branches run() has entered
    exit_code

config == <<gemini_api_key, sha, test_exit_code, has_complexity, has_const_issues,
            has_large_files, has_static_issues, test_results_txt>>

vars == <<gemini_api_key, sha, test_exit_code, has_complexity, has_const_issues,
          has_large_files, has_static_issues, test_results_txt, pc, calls,
          ai_report, fallback, branch_name, pr_result, issue_number, pr_number,
          exc, caught, completed, entered, exit_code>>

\* CodeReviewBot.__init__: the fields are read once from the environment
Init ==
    /\ gemini_api_key \in ApiKeys
    /\ sha \in Shas
    /\ test_exit_code \in ExitCodes
    /\ \E v \in FlagEnv : has_complexity = EnvFlag(v)
    /\ \E v \in FlagEnv : has_const_issues = EnvFlag(v)
    /\ \E v \in FlagEnv : has_large_files = EnvFlag(v)
    /\ \E v \in FlagEnv : has_static_issues = EnvFlag(v)
    /\ test_results_txt \in TestFiles
    /\ pc = "run"
    /\ calls = <<>>
    /\ ai_report = <<>>
    /\ fallback = FALSE
    /\ branch_name = <<>>
    /\ pr_result = NoneVal
    /\ issue_number = 0
    /\ pr_number = 0
    /\ exc = ""
    /\ caught = ""
    /\ completed = FALSE
    /\ entered = {}
    /\ exit_code = NoExit

\* run(), first if
Run ==
    /\ pc = "run"
    /\ IF BranchACond(test_exit_code)
       THEN pc' = "A_gen" /\ entered' = entered \cup {"A"}
       ELSE pc' = "run_if_B" /\ entered' = entered
    /\ UNCHANGED <<config, calls, ai_report, fallback, branch_name, pr_result,
                   issue_number, pr_number, exc, caught, completed, exit_code>>

\* run(), second if
RunSecondIf ==
    /\ pc = "run_if_B"
    /\ IF BranchBCond(test_exit_code, has_complexity, has_const_issues,
                      has_large_files, has_static_issues)
       THEN pc' = "B_gen" /\ entered' = entered \cup {"B"}
       ELSE pc' = "run_end" /\ entered' = entered
    /\ UNCHANGED <<config, calls, ai_report, fallback, branch_name, pr_result,
                   issue_number, pr_number, exc, caught, completed, exit_code>>

\* generate_ai_analysis, called first thing by either branch
GenerateAiAnalysis ==
    /\ pc \in {"A_gen", "B_gen"}
    /\ \E resp \in GeminiResponses :
         LET test_results == read_file(test_results_txt)
             g == call_gemini_api(gemini_api_key, resp)
         IN  /\ calls' = IF g.sent
                         THEN Append(calls, Call("gemini", "POST", "generateContent", 0, <<>>,
                                                 Returned(NoneVal)))
                         ELSE calls
             /\ fallback' = NoReport(g.text)
             /\ ai_report' = IF NoReport(g.text)
                             THEN FallbackReport(test_results, has_complexity, has_const_issues,
                                                 has_large_files, has_static_issues)
                             ELSE g.text.val
    /\ pc' = IF pc = "A_gen" THEN "A_issue" ELSE "B_branch"
    /\ UNCHANGED <<config, branch_name, pr_result, issue_number, pr_number,
                   exc, caught, completed, entered, exit_code>>

\* create_test_failure_issue after the analysis: payload, POST /issues, return
CreateTestFailureIssue ==
    /\ pc = "A_issue"
    /\ IF sha.none
       THEN /\ exc' = "TypeError"
            /\ pc' = "raised"
            /\ UNCHANGED <<calls, issue_number>>
       ELSE \E resp \in GitHubResponses :
              LET r == request(resp)
              IN  /\ calls' = Append(calls, Call("github", "POST", "/issues", 0,
                                                 IssueTitle(sha.val), r))
                  /\ IF r.raised # ""
                     THEN exc' = r.raised /\ pc' = "raised" /\ UNCHANGED issue_number
                     ELSE IF Truthy(r.value) /\ "number" \notin r.value.keys
                     THEN exc' = "KeyError" /\ pc' = "raised" /\ UNCHANGED issue_number
                     ELSE /\ issue_number' = IF Truthy(r.value) THEN r.value.number ELSE 0
                          /\ pc' = "run_if_B"
                          /\ UNCHANGED exc
    /\ UNCHANGED <<config, ai_report, fallback, branch_name, pr_result, pr_number,
                   caught, completed, entered, exit_code>>

\* create_code_quality_pr, line 196, before the try block
ComputeBranchName ==
    /\ pc = "B_branch"
    /\ IF sha.none
       THEN exc' = "TypeError" /\ pc' = "raised" /\ UNCHANGED branch_name
       ELSE branch_name' = BranchName(sha.val) /\ pc' = "B_ref" /\ UNCHANGED exc
    /\ UNCHANGED <<config, calls, ai_report, fallback, pr_result, issue_number,
                   pr_number, caught, completed, entered, exit_code>>

\* an exception raised inside the try block of create_code_quality_pr
BRaise(e) ==
    IF TryCatches(e)
    THEN pc' = "run_end" /\ caught' = e /\ exc' = exc
    ELSE pc' = "raised" /\ exc' = e /\ caught' = caught

CreateRef ==
    /\ pc = "B_ref"
    /\ \E resp \in GitHubResponses :
         LET r == request(resp)
         IN  /\ calls' = Append(calls, Call("github", "POST", "/git/refs", 0, branch_name, r))
             /\ IF r.raised # ""
                THEN BRaise(r.raised)
                ELSE pc' = AfterCreateRef(r.value) /\ UNCHANGED <<exc, caught>>
    /\ UNCHANGED <<config, ai_report, fallback, branch_name, pr_result, issue_number,
                   pr_number, completed, entered, exit_code>>

CreateFile ==
    /\ pc = "B_file"
    /\ \E resp \in GitHubResponses :
         LET r == request(resp)
         IN  /\ calls' = Append(calls, Call("github", "PUT", "/contents/CODE_QUALITY_ANALYSIS.md",
                                            0, branch_name, r))
             /\ IF r.raised # ""
                THEN BRaise(r.raised)
                ELSE pc' = "B_pull" /\ UNCHANGED <<exc, caught>>
    /\ UNCHANGED <<config, ai_report, fallback, branch_name, pr_result, issue_number,
                   pr_number, completed, entered, exit_code>>

CreatePull ==
    /\ pc = "B_pull"
    /\ \E resp \in GitHubResponses :
         LET r == request(resp)
         IN  /\ calls' = Append(calls, Call("github", "POST", "/pulls", 0, PrTitle(sha.val), r))
             /\ IF r.raised # ""
                THEN BRaise(r.raised) /\ UNCHANGED pr_result
                ELSE /\ pr_result' = r.value
                     /\ pc' = IF PrAbort(r.value) THEN "run_end" ELSE "B_labels"
                     /\ UNCHANGED <<exc, caught>>
    /\ UNCHANGED <<config, ai_report, fallback, branch_name, issue_number,
                   pr_number, completed, entered, exit_code>>

\* pr_result['number'] on None or on an object without the key
SubscriptError(v) == IF v.none THEN "TypeError" ELSE "KeyError"

AddLabels ==
    /\ pc = "B_labels"
    /\ IF "number" \notin pr_result.keys
       THEN BRaise(SubscriptError(pr_result)) /\ UNCHANGED calls
       ELSE \E resp \in GitHubResponses :
              LET r == request(resp)
              IN  /\ calls' = Append(calls, Call("github", "POST", "/issues/{number}/labels",
                                                 LabelsNumber(pr_result), <<>>, r))
                  /\ IF r.raised # ""
                     THEN BRaise(r.raised)
                     ELSE pc' = "B_comment" /\ UNCHANGED <<exc, caught>>
    /\ UNCHANGED <<config, ai_report, fallback, branch_name, pr_result, issue_number,
                   pr_number, completed, entered, exit_code>>

AddComment ==
    /\ pc = "B_comment"
    /\ \E resp \in GitHubResponses :
         LET r == request(resp)
         IN  /\ calls' = Append(calls, Call("github", "POST", "/issues/{number}/comments",
                                            CommentsNumber(pr_result), <<>>, r))
             /\ IF r.raised # ""
                THEN BRaise(r.raised)
                ELSE pc' = "B_print" /\ UNCHANGED <<exc, caught>>
    /\ UNCHANGED <<config, ai_report, fallback, branch_name, pr_result, issue_number,
                   pr_number, completed, entered, exit_code>>

\* print(f"Created PR #{pr_result['number']}: {pr_result['html_url']}"); return
PrintAndReturn ==
    /\ pc = "B_print"
    /\ IF "html_url" \notin pr_result.keys
       THEN BRaise("KeyError") /\ UNCHANGED pr_number
       ELSE pr_number' = pr_result.number /\ pc' = "run_end" /\ UNCHANGED <<exc, caught>>
    /\ UNCHANGED <<config, calls, ai_report, fallback, branch_name, pr_result,
                   issue_number, completed, entered, exit_code>>

\* run(), last line
RunCompleted ==
    /\ pc = "run_end"
    /\ completed' = TRUE
    /\ pc' = "returned"
    /\ UNCHANGED <<config, calls, ai_report, fallback, branch_name, pr_result,
                   issue_number, pr_number, exc, caught, entered, exit_code>>

\* __main__: bot.run() returned, implicit exit status 0
MainExit ==
    /\ pc = "returned"
    /\ exit_code' = 0
    /\ pc' = "exited"
    /\ UNCHANGED <<config, calls, ai_report, fallback, branch_name, pr_result,
                   issue_number, pr_number, exc, caught, completed, entered>>

\* __main__: except Exception, sys.exit(1)
MainExcept ==
    /\ pc = "raised"
    /\ exit_code' = 1
    /\ pc' = "exited"
    /\ UNCHANGED <<config, calls, ai_report, fallback, branch_name, pr_result,
                   issue_number, pr_number, exc, caught, completed, entered>>

Next ==
    \/ Run
    \/ RunSecondIf
    \/ GenerateAiAnalysis
    \/ CreateTestFailureIssue
    \/ ComputeBranchName
    \/ CreateRef
    \/ CreateFile
    \/ CreatePull
    \/ AddLabels
    \/ AddComment
    \/ PrintAndReturn
    \/ RunCompleted
    \/ MainExit
    \/ MainExcept

Spec == Init /\ [][Next]_vars

TypeOK ==
    /\ pc \in {"run", "run_if_B", "A_gen", "A_issue", "B_gen", "B_branch", "B_ref", "B_file",
               "B_pull", "B_labels", "B_comment", "B_print", "run_end", "returned",
               "raised", "exited"}
    /\ exit_code \in {NoExit, 0, 1}
    /\ entered \subseteq {"A", "B"}

\* ----------------------------------------------------------------- claims
CallsTo(path) == {i \in DOMAIN calls : calls[i].path = path}

GitHubCalls == SelectSeq(calls, LAMBDA c : c.api = "github")

GeminiCalls == SelectSeq(calls, LAMBDA c : c.api = "gemini")

\* the title holds the first seven characters of the commit SHA (all of it
\* when it is shorter), next to one another
TitleHasShaPrefix(title) ==
    \E j \in 0..Len(title) :
        \A k \in 1..Min(ShaPrefixLen, Len(sha.val)) :
            j + k <= Len(title) /\ title[j + k] = sha.val[k]

TestFailed == test_exit_code # "0"

AnyFlag == has_complexity \/ has_const_issues \/ has_large_files \/ has_static_issues

\* C1 as stated: a run whose TEST_EXIT_CODE is not "0" issues exactly one
\* POST /issues call, GITHUB_SHA unset included, and its title holds the
\* first 7 characters of the commit SHA.
C1_AsStated ==
    (pc = "exited" /\ TestFailed) =>
        /\ Cardinality(CallsTo("/issues")) = 1
        /\ \A i \in CallsTo("/issues") : TitleHasShaPrefix(calls[i].title)

\* C1 amended: a run whose TEST_EXIT_CODE is not "0" and whose GITHUB_SHA is
\* set issues exactly one POST /issues call, its title holding the first 7
\* characters of the SHA; with GITHUB_SHA unset the run issues no POST /issues
\* call and exits with code 1.
C1_OneIssuePerFailedRun ==
    /\ Cardinality(CallsTo("/issues")) <= 1
    /\ \A i \in CallsTo("/issues") : TitleHasShaPrefix(calls[i].title)
    /\ (pc = "exited" /\ TestFailed /\ ~sha.none) => Cardinality(CallsTo("/issues")) = 1
    /\ (pc = "exited" /\ TestFailed /\ sha.none) =>
           (CallsTo("/issues") = {} /\ exit_code = 1)

C1_Witness ==
    /\ pc = "exited"
    /\ test_exit_code = NoneStr
    /\ sha = MkSha(LongShaLen)
    /\ Cardinality(CallsTo("/issues")) = 1
    /\ exit_code = 0

\* C2: with TEST_EXIT_CODE "0" and the four flags false, the run issues no
\* remote call and no generative call, raises nothing, and ends with the
\* completed message and exit status 0.
C2_QuietRun ==
    (test_exit_code = "0" /\ ~AnyFlag) =>
        /\ calls = <<>>
        /\ exc = "" /\ caught = ""
        /\ entered = {}
        /\ pc = "exited" => (completed /\ exit_code = 0)

C2_Witness ==
    /\ pc = "exited"
    /\ test_exit_code = "0"
    /\ ~AnyFlag
    /\ completed
    /\ calls = <<>>

\* C3: after a POST /pulls call that returned null no label-add or comment-add
\* call is issued and no identifier is returned; a label-add or comment-add
\* call is only issued after a POST /pulls call whose result was not null,
\* and targets the number of that result.
C3_LabelsOnlyAfterPull ==
    /\ \A j \in CallsTo("/pulls") :
          calls[j].result = "null" =>
             /\ \A i \in DOMAIN calls :
                   i > j => calls[i].path \notin {"/issues/{number}/labels",
                                                 "/issues/{number}/comments"}
             /\ pr_number = 0
    /\ \A i \in CallsTo("/issues/{number}/labels") \cup CallsTo("/issues/{number}/comments") :
          \E j \in CallsTo("/pulls") :
             /\ j < i
             /\ calls[j].result = "value"
             /\ calls[j].resnum = calls[i].number

C3_Witness ==
    /\ pc = "exited"
    /\ \E j \in CallsTo("/pulls") : calls[j].result = "null"
    /\ Len(GitHubCalls) = 3
    /\ pr_number = 0
    /\ completed

\* C4: GitHubAPI.request never raises to its caller (a transport failure and
\* an unparseable success body give a null result), so a failed remote call
\* never makes the run exit with code 1.
C4_RequestNeverRaises ==
    pc = "exited" =>
        /\ \A i \in DOMAIN calls : calls[i].api = "github" => calls[i].result # "raised"
        /\ exit_code = 1 => exc \notin {"ConnectionError", "JSONDecodeError"}

\* C5 as stated: whatever is raised while Branch B executes, the computation
\* of the branch name from an unset SHA included, is caught inside the branch:
\* no identifier, the completed message is reached, the exit status is not 1.
C5_AsStated ==
    ("B" \in entered /\ pc = "exited") =>
        (completed /\ exit_code = 0 /\ exc = "")

\* C5 amended: an exception raised inside the try block of Branch B (from the
\* ref-create call to the final print) is caught: the branch returns no
\* identifier, run() reaches the completed message and the exit status is 0.
\* The branch name is computed before the try block: with GITHUB_SHA unset
\* the TypeError leaves run() and the process exits with code 1.
C5_TryBlockCatches ==
    /\ caught # "" => (pr_number = 0 /\ exc = "" /\ "B" \in entered)
    /\ ("B" \in entered /\ pc = "exited" /\ ~sha.none) =>
           (completed /\ exit_code = 0 /\ exc = "")
    /\ ("B" \in entered /\ pc = "exited" /\ sha.none) =>
           (~completed /\ exit_code = 1 /\ exc = "TypeError" /\ caught = "")

C5_Witness ==
    /\ pc = "exited"
    /\ caught = "ConnectionError"
    /\ Len(GitHubCalls) = 3
    /\ completed
    /\ exit_code = 0

\* the text that follows the priority label in a report
PriorityOf(report) ==
    {report[i + 1] : i \in {k \in 1..(Len(report) - 1) : report[k] = PriorityLabel}}

\* "FAIL" occurs in t
HasFail(t) ==
    \E i \in 1..(Len(t) - 3) :
        t[i] = "F" /\ t[i + 1] = "A" /\ t[i + 2] = "I" /\ t[i + 3] = "L"

\* C6: a fallback report has severity critical exactly when the test-output
\* text that was read contains "FAIL", and medium otherwise, whatever
\* TEST_EXIT_CODE and the flags are.
C6_FallbackSeverity ==
    fallback =>
        PriorityOf(ai_report) =
            IF HasFail(read_file(test_results_txt)) THEN {"CRITICAL"} ELSE {"MEDIUM"}

C6_Witness ==
    /\ fallback
    /\ test_exit_code = "1"
    /\ test_results_txt.status = "ok"
    /\ test_results_txt.content = <<"F", "A", "I">>
    /\ AnyFlag
    /\ PriorityOf(ai_report) = {"MEDIUM"}

Occurrences(report, line) == Cardinality({i \in DOMAIN report : report[i] = line})

\* C7: in a fallback report each flag's bullet occurs once when the flag is
\* true and not at all when it is false.
C7_BulletsMatchFlags ==
    fallback =>
        /\ Occurrences(ai_report, BulletComplexity) = (IF has_complexity THEN 1 ELSE 0)
        /\ Occurrences(ai_report, BulletConst) = (IF has_const_issues THEN 1 ELSE 0)
        /\ Occurrences(ai_report, BulletLarge) = (IF has_large_files THEN 1 ELSE 0)
        /\ Occurrences(ai_report, BulletStatic) = (IF has_static_issues THEN 1 ELSE 0)

C7_Witness ==
    /\ fallback
    /\ test_exit_code = "0"
    /\ has_complexity /\ ~has_const_issues /\ ~has_large_files /\ ~has_static_issues
    /\ Occurrences(ai_report, BulletComplexity) = 1
    /\ Occurrences(ai_report, BulletLarge) = 0

BranchBPaths ==
    <<"/git/refs", "/contents/CODE_QUALITY_ANALYSIS.md", "/pulls",
      "/issues/{number}/labels", "/issues/{number}/comments">>

BranchBMethods == <<"POST", "PUT", "POST", "POST", "POST">>

\* C8: in a run that enters Branch B and raises nothing, the remote calls are
\* a prefix of ref-create, content-create, pull-create, label-add,
\* comment-add, each at most once; a null result of the first two does not
\* stop the sequence (a finished run has issued the first three at least);
\* no call deletes anything.
C8_BranchBOrder ==
    ("B" \in entered /\ exc = "" /\ caught = "") =>
        /\ Len(GitHubCalls) <= Len(BranchBPaths)
        /\ \A i \in DOMAIN GitHubCalls :
              /\ GitHubCalls[i].path = BranchBPaths[i]
              /\ GitHubCalls[i].method = BranchBMethods[i]
        /\ pc = "exited" =>
              Len(GitHubCalls) = (IF Truthy(pr_result) THEN 5 ELSE 3)

C8_Witness ==
    /\ "B" \in entered /\ exc = "" /\ caught = ""
    /\ pc = "exited"
    /\ Len(GitHubCalls) = 5
    /\ GitHubCalls[1].result = "null"
    /\ GitHubCalls[2].result = "null"

\* generate_ai_analysis has returned
AnalysisReturned == entered # {} /\ pc \notin {"A_gen", "B_gen"}

FirstRemotePaths == {"/issues", "/git/refs"}

C9_Common ==
    /\ AnalysisReturned =>
          /\ Len(GeminiCalls) = (IF KeyConfigured(gemini_api_key) THEN 1 ELSE 0)
          /\ ai_report # <<>>
    /\ Len(GeminiCalls) <= 1
    /\ \A i, j \in DOMAIN calls :
          (calls[i].api = "github" /\ calls[j].api = "gemini") => j < i

\* C9 as stated: one generative request per invocation when a key is
\* configured and none otherwise; the invocation returns a non-empty report
\* whatever the request's outcome, so the run goes on to issue its
\* issue-create or branch-create call; at most one generative request per
\* run, before any remote call.
C9_AsStated ==
    /\ C9_Common
    /\ (pc = "exited" /\ entered # {}) =>
          \E i \in DOMAIN calls : calls[i].path \in FirstRemotePaths

\* C9 amended: as stated, except that the run goes on to its issue-create or
\* branch-create call only when GITHUB_SHA is set; with GITHUB_SHA unset the
\* run raises after the invocation returned and issues no remote call.
C9_OneGenerativeRequest ==
    /\ C9_Common
    /\ (pc = "exited" /\ entered # {} /\ ~sha.none) =>
          \E i \in DOMAIN calls : calls[i].path \in FirstRemotePaths
    /\ sha.none => GitHubCalls = <<>>

C9_Witness ==
    /\ pc = "exited"
    /\ KeyConfigured(gemini_api_key)
    /\ fallback
    /\ Len(calls) >= 2
    /\ calls[1].api = "gemini"
    /\ calls[2].api = "github"

\* C10: no run issues both a POST /issues call and a Branch B call
\* (POST /git/refs, PUT /contents, POST /pulls), and no run enters both
\* branches.
C10_BranchesExclusive ==
    /\ entered # {"A", "B"}
    /\ ~ /\ CallsTo("/issues") # {}
         /\ \E i \in DOMAIN calls :
               calls[i].path \in {"/git/refs", "/contents/CODE_QUALITY_ANALYSIS.md", "/pulls"}

C10_Witness ==
    /\ pc = "exited"
    /\ CallsTo("/issues") # {}
    /\ has_complexity /\ has_static_issues
    /\ exit_code = 0

====
